---------------------------- MODULE Spec2Model ----------------------------
(***************************************************************************)
(* Inventario Automatizado (src/app.py): one run of the Streamlit script   *)
(* over an uploaded spreadsheet.  Header strings are sequences of          *)
(* one-character strings, so that lower(), strip() and the substring test  *)
(* of detectar_y_normalizar_columnas are computed, not assumed.  A table   *)
(* is a sequence of column names plus a sequence of rows, each row a       *)
(* sequence of cells in column position (pandas allows two columns of the  *)
(* same name, and the script can produce them).  Numbers are integers.     *)
(***************************************************************************)
EXTENDS Integers, Sequences, FiniteSets, TLC

VARIABLES pc, df, detected, df_norm, missing_required, df_work, stats,
          selected_cats, df_filtered, series_stock, series_val, pivot,
          report, message

vars == <<pc, df, detected, df_norm, missing_required, df_work, stats,
          selected_cats, df_filtered, series_stock, series_val, pivot,
          report, message>>

(***************************************************************************)
(* Bounds of the explored inputs.                                          *)
(***************************************************************************)
MaxCols == 3

MaxRows == 2

MaxProducts == 22

(***************************************************************************)
(* Canonical column names and the synonym dictionary (lines 23-29).        *)
(***************************************************************************)
Producto == <<"P","r","o","d","u","c","t","o">>

Categoria == <<"C","a","t","e","g","o","r","í","a">>

Proveedor == <<"P","r","o","v","e","e","d","o","r">>

Stock == <<"S","t","o","c","k">>

PrecioUnitario == <<"P","r","e","c","i","o"," ","U","n","i","t","a","r","i","o"," ","(","S","/",")">>

ValorTotal == <<"V","a","l","o","r"," ","T","o","t","a","l"," ","(","S","/",")">>

posibles ==
  << [standard |-> Producto,
      synonyms |-> << <<"p","r","o","d","u","c","t","o">>,
                      <<"a","r","t","í","c","u","l","o">>,
                      <<"a","r","t","i","c","u","l","o">>,
                      <<"n","o","m","b","r","e">>,
                      <<"i","t","e","m">>,
                      <<"d","e","s","c","r">>,
                      <<"d","e","s","c","r","i","p","c","i","o","n">> >>],
     [standard |-> Categoria,
      synonyms |-> << <<"c","a","t","e","g","o","r","i","a">>,
                      <<"c","a","t","e","g","o","r","í","a">>,
                      <<"t","i","p","o">>,
                      <<"c","l","a","s","e">>,
                      <<"g","r","u","p","o">>,
                      <<"f","a","m","i","l","i","a">> >>],
     [standard |-> Proveedor,
      synonyms |-> << <<"p","r","o","v","e","e","d","o","r">>,
                      <<"s","u","p","p","l","i","e","r">>,
                      <<"v","e","n","d","o","r">>,
                      <<"d","i","s","t","r","i","b","u","i","d","o","r">> >>],
     [standard |-> Stock,
      synonyms |-> << <<"s","t","o","c","k">>,
                      <<"e","x","i","s","t","e","n","c","i","a","s">>,
                      <<"c","a","n","t","i","d","a","d">>,
                      <<"d","i","s","p","o","n","i","b","l","e">>,
                      <<"i","n","v","e","n","t","a","r","i","o">>,
                      <<"q","t","y">>,
                      <<"u","n","i","d","a","d","e","s">> >>],
     [standard |-> PrecioUnitario,
      synonyms |-> << <<"p","r","e","c","i","o"," ","u","n","i","t","a","r","i","o">>,
                      <<"p","r","e","c","i","o">>,
                      <<"c","o","s","t","o">>,
                      <<"v","a","l","o","r"," ","u","n","i","t","a","r","i","o">>,
                      <<"p","r","i","c","e">>,
                      <<"c","o","s","t">> >>] >>

\* required = ['Producto', 'Stock', 'Precio Unitario (S/)'] (line 66)
required == <<Producto, Stock, PrecioUnitario>>

(***************************************************************************)
(* Raw headers an uploaded sheet may carry (df.columns after read_excel).  *)
(***************************************************************************)
H_Nombre == <<"N","o","m","b","r","e">>

H_Description == <<"D","e","s","c","r","i","p","t","i","o","n">>

H_STOCK == <<"S","T","O","C","K">>

H_StockActual == <<"S","t","o","c","k"," ","A","c","t","u","a","l">>

H_Qty == <<" ","Q","t","y"," ">>

H_Precio == <<"P","r","e","c","i","o">>

H_PrecioProducto == <<"P","r","e","c","i","o"," ","P","r","o","d","u","c","t","o">>

H_UnitCost == <<"U","n","i","t"," ","C","o","s","t">>

H_Tipo == <<"T","i","p","o">>

HeaderPool ==
  { Producto, H_Nombre, H_Description, Stock, H_STOCK, H_StockActual, H_Qty,
    H_Precio, H_PrecioProducto, Categoria }

(***************************************************************************)
(* Cells: the tagged union {Number, Text, NaN}; a blank spreadsheet cell   *)
(* is read as NaN.  None is Python's None.                                 *)
(***************************************************************************)
Num(n) == [t |-> "Number", n |-> n, s |-> <<>>]

Txt(s) == [t |-> "Text", n |-> 0, s |-> s]

NaN == [t |-> "NaN", n |-> 0, s |-> <<>>]

None == [t |-> "None", n |-> 0, s |-> <<>>]

(***************************************************************************)
(* str.lower(), str.strip() and the `in` substring test (lines 32, 38).    *)
(***************************************************************************)
upper ==
  ("A" :> "a") @@ ("C" :> "c") @@ ("D" :> "d") @@ ("I" :> "i") @@
  ("K" :> "k") @@ ("N" :> "n") @@ ("O" :> "o") @@ ("P" :> "p") @@
  ("Q" :> "q") @@ ("S" :> "s") @@ ("T" :> "t") @@ ("U" :> "u") @@
  ("V" :> "v")

Lower(str) ==
  [i \in 1..Len(str) |-> IF str[i] \in DOMAIN upper THEN upper[str[i]] ELSE str[i]]

RECURSIVE Strip(_)
Strip(str) ==
  IF str = <<>> THEN <<>>
  ELSE IF Head(str) = " " THEN Strip(Tail(str))
  ELSE IF str[Len(str)] = " " THEN Strip(SubSeq(str, 1, Len(str) - 1))
  ELSE str

Contains(syn, str) ==
  \E i \in 0..(Len(str) - Len(syn)) : SubSeq(str, i + 1, i + Len(syn)) = syn

(***************************************************************************)
(* detectar_y_normalizar_columnas (lines 17-49).                           *)
(***************************************************************************)
\* cols_lower = {c.lower().strip(): c for c in df.columns}: an insertion-
\* ordered dict; a repeated key keeps its first position and takes the
\* later value.
RECURSIVE ColsLower(_)
ColsLower(columns) ==
  IF columns = <<>> THEN <<>>
  ELSE LET prev == ColsLower(SubSeq(columns, 1, Len(columns) - 1))
           c    == columns[Len(columns)]
           k    == Strip(Lower(c))
       IN  IF \E i \in DOMAIN prev : prev[i].key = k
           THEN [i \in DOMAIN prev |->
                   IF prev[i].key = k THEN [key |-> k, real |-> c] ELSE prev[i]]
           ELSE Append(prev, [key |-> k, real |-> c])

\* the inner loop of lines 37-40: the first entry of cols_lower whose key
\* contains syn, or 0
FirstMatch(syn, cols_lower) ==
  IF \E i \in DOMAIN cols_lower : Contains(syn, cols_lower[i].key)
  THEN CHOOSE i \in DOMAIN cols_lower :
         /\ Contains(syn, cols_lower[i].key)
         /\ \A j \in 1..(i - 1) : ~Contains(syn, cols_lower[j].key)
  ELSE 0

\* the loop over the synonyms of one field (lines 35-43): found, or <<>>
RECURSIVE Found(_, _)
Found(synonyms, cols_lower) ==
  IF synonyms = <<>> THEN <<>>
  ELSE LET i == FirstMatch(Head(synonyms), cols_lower)
       IN  IF i # 0 /\ cols_lower[i].real # <<>>
           THEN cols_lower[i].real
           ELSE Found(Tail(synonyms), cols_lower)

\* cols_map, in insertion order: one entry per field that found a column
RECURSIVE ColsMap(_, _)
ColsMap(fields, cols_lower) ==
  IF fields = <<>> THEN <<>>
  ELSE LET found == Found(Head(fields).synonyms, cols_lower)
           rest  == ColsMap(Tail(fields), cols_lower)
       IN  IF found # <<>>
           THEN <<[std |-> Head(fields).standard, orig |-> found]>> \o rest
           ELSE rest

DetectMap(columns) == ColsMap(posibles, ColsLower(columns))

\* ren = {orig: std for std, orig in cols_map.items()} (line 46): a later
\* field overwrites an earlier one that claimed the same column
Ren(cols_map, c) ==
  IF \E i \in DOMAIN cols_map : cols_map[i].orig = c
  THEN LET last == CHOOSE i \in DOMAIN cols_map :
                     /\ cols_map[i].orig = c
                     /\ \A j \in DOMAIN cols_map : cols_map[j].orig = c => j <= i
       IN  cols_map[last].std
  ELSE c

\* df.rename(columns=ren) (line 48)
Rename(columns, cols_map) ==
  [i \in 1..Len(columns) |-> Ren(cols_map, columns[i])]

\* `std in detected`, detected[std]
Has(cols_map, std) == \E i \in DOMAIN cols_map : cols_map[i].std = std

Keys(cols_map) == {cols_map[i].std : i \in DOMAIN cols_map}

(***************************************************************************)
(* Column access by name: the positions of the columns so named.           *)
(***************************************************************************)
Positions(columns, name) == {i \in DOMAIN columns : columns[i] = name}

Pos(columns, name) == CHOOSE i \in Positions(columns, name) : TRUE


Column(tbl, name) ==
  [r \in DOMAIN tbl.rows |-> tbl.rows[r][Pos(tbl.columns, name)]]

\* df[name] = values: an existing column is overwritten in place, a new
\* one is appended on the right
SetColumn(tbl, name, values) ==
  IF Positions(tbl.columns, name) # {}
  THEN [columns |-> tbl.columns,
        rows |-> [r \in DOMAIN tbl.rows |->
                    [i \in DOMAIN tbl.columns |->
                       IF tbl.columns[i] = name THEN values[r] ELSE tbl.rows[r][i]]]]
  ELSE [columns |-> Append(tbl.columns, name),
        rows |-> [r \in DOMAIN tbl.rows |-> Append(tbl.rows[r], values[r])]]

RECURSIVE SumSeq(_)
SumSeq(values) ==
  IF values = <<>> THEN 0 ELSE Head(values) + SumSeq(Tail(values))

(***************************************************************************)
(* Numeric coercion (lines 81-82): pd.to_numeric(errors='coerce') then     *)
(* fillna(0).  A text cell parses when it is a string of decimal digits;   *)
(* the text cells of the explored inputs are digit strings or no numerals  *)
(* at all.                                                                 *)
(***************************************************************************)
digit ==
  ("0" :> 0) @@ ("1" :> 1) @@ ("2" :> 2) @@ ("3" :> 3) @@ ("4" :> 4) @@
  ("5" :> 5) @@ ("6" :> 6) @@ ("7" :> 7) @@ ("8" :> 8) @@ ("9" :> 9)

RECURSIVE ParseDigits(_)
ParseDigits(s) ==
  IF s = <<>> THEN 0
  ELSE 10 * ParseDigits(SubSeq(s, 1, Len(s) - 1)) + digit[s[Len(s)]]

ToNumeric(cell) ==
  IF cell.t = "Number" THEN cell
  ELSE IF cell.t = "Text" /\ cell.s # <<>> /\ \A i \in DOMAIN cell.s : cell.s[i] \in DOMAIN digit
       THEN Num(ParseDigits(cell.s))
  ELSE NaN

FillNa0(cell) == IF cell.t = "NaN" THEN Num(0) ELSE cell

\* a slip that would leave out .fillna(0)
Coerce_NoFill(cell) == ToNumeric(cell)

Coerce(cell) == FillNa0(ToNumeric(cell))

CoerceColumn(tbl, name) ==
  SetColumn(tbl, name, [r \in DOMAIN tbl.rows |-> Coerce(Column(tbl, name)[r])])

\* df_work['Valor Total (S/)'] = df_work['Stock'] * df_work['Precio Unitario (S/)']
WithValorTotal(tbl) ==
  SetColumn(tbl, ValorTotal,
            [r \in DOMAIN tbl.rows |->
               Num(Column(tbl, Stock)[r].n * Column(tbl, PrecioUnitario)[r].n)])

\* df_work[name] is a Series only when exactly one column has that name:
\* none raises KeyError, several give a DataFrame that pd.to_numeric rejects
IsSeries(tbl, name) == Cardinality(Positions(tbl.columns, name)) = 1

(***************************************************************************)
(* Schema validation (lines 66-75).                                        *)
(***************************************************************************)
\* a slip that would check only the first two required fields
MissingRequired_FirstTwo(cols_map) ==
  LET absent(r) == ~Has(cols_map, r)
  IN  SelectSeq(SubSeq(required, 1, 2), absent)

\* missing_required = [r for r in required if r not in detected]
MissingRequired(cols_map) ==
  LET absent(r) == ~Has(cols_map, r)
  IN  SelectSeq(required, absent)

NoMessage == [kind |-> "none", fields |-> <<>>]

\* st.error("No se detectaron las columnas mínimas: " + ', '.join(missing_required))
SchemaMessage(missing) == [kind |-> "schema", fields |-> missing]

\* except Exception as e: st.error("Ocurrió un error al procesar el archivo") (lines 286-287)
ExceptionMessage == [kind |-> "exception", fields |-> <<>>]

(***************************************************************************)
(* Summary metrics (lines 98-108).                                         *)
(***************************************************************************)
\* Series.mean(): NaN on an empty series, else sum / count (kept as a fraction)
Mean(values) ==
  IF Len(values) = 0 THEN [nan |-> TRUE, num |-> 0, den |-> 1]
  ELSE [nan |-> FALSE, num |-> SumSeq(values), den |-> Len(values)]

\* the literal 0 of the else branch of line 100
ZeroMean == [nan |-> FALSE, num |-> 0, den |-> 1]

\* Series.idxmax() / idxmin(): the first row holding the extreme value
IdxMax(values) ==
  CHOOSE i \in DOMAIN values :
    /\ \A j \in DOMAIN values : values[j] <= values[i]
    /\ \A j \in 1..(i - 1) : values[j] < values[i]

IdxMin(values) ==
  CHOOSE i \in DOMAIN values :
    /\ \A j \in DOMAIN values : values[j] >= values[i]
    /\ \A j \in 1..(i - 1) : values[j] > values[i]

Numbers(cells) == [i \in DOMAIN cells |-> cells[i].n]

Summary(tbl) ==
  LET total_productos == Len(tbl.rows)
      stock == Numbers(Column(tbl, Stock))
  IN  [total_productos |-> total_productos,
       valor_total     |-> SumSeq(Numbers(Column(tbl, ValorTotal))),
       precio_promedio |-> IF Positions(tbl.columns, PrecioUnitario) # {}
                           THEN Mean(Numbers(Column(tbl, PrecioUnitario)))
                           ELSE ZeroMean,
       producto_max    |-> IF total_productos > 0
                           THEN Column(tbl, Producto)[IdxMax(stock)] ELSE None,
       producto_min    |-> IF total_productos > 0
                           THEN Column(tbl, Producto)[IdxMin(stock)] ELSE None]

NoStats ==
  [total_productos |-> 0, valor_total |-> 0, precio_promedio |-> ZeroMean,
   producto_max |-> None, producto_min |-> None]

(***************************************************************************)
(* Category filter (lines 121-126).                                        *)
(***************************************************************************)
\* df_work['Categoría'].dropna().unique()
Categorias(tbl) ==
  {Column(tbl, Categoria)[r] : r \in DOMAIN tbl.rows} \ {NaN}

\* df_work[df_work['Categoría'].isin(selected_cats)]
FilterByCategoria(tbl, selected) ==
  LET keep(row) == row[Pos(tbl.columns, Categoria)] \in selected
  IN  [columns |-> tbl.columns, rows |-> SelectSeq(tbl.rows, keep)]

(***************************************************************************)
(* groupby(key)[value].sum(): groups are the non-missing key values.       *)
(***************************************************************************)
RECURSIVE SumWhere(_, _, _, _)
SumWhere(rows, kpos, key, vpos) ==
  IF rows = <<>> THEN 0
  ELSE (IF Head(rows)[kpos] = key THEN Head(rows)[vpos].n ELSE 0)
       + SumWhere(Tail(rows), kpos, key, vpos)

GroupSum(tbl, key, value) ==
  LET kpos == Pos(tbl.columns, key)
      vpos == Pos(tbl.columns, value)
      keys == {tbl.rows[r][kpos] : r \in DOMAIN tbl.rows} \ {NaN}
  IN  [k \in keys |-> SumWhere(tbl.rows, kpos, k, vpos)]

NoSeries == [k \in {} |-> 0]

(***************************************************************************)
(* On-screen pie (lines 146-153).                                          *)
(***************************************************************************)
PieCap == 20

\* series.nlargest(n): the n largest entries.  Which of several equal
\* values at the cut survive depends on the order the unstable
\* sort_values left them in, so every admissible choice is returned.
NLargest(series, n) ==
  LET keys  == DOMAIN series
      above(v) == {k \in keys : series[k] > v}
      atleast(v) == {k \in keys : series[k] >= v}
      cut   == CHOOSE v \in {series[k] : k \in keys} :
                 Cardinality(above(v)) < n /\ Cardinality(atleast(v)) >= n
      ties  == atleast(cut) \ above(cut)
  IN  { [k \in above(cut) \cup some |-> series[k]] :
          some \in {s \in SUBSET ties : Cardinality(s) = n - Cardinality(above(cut))} }

PieSeries(series) ==
  IF Cardinality(DOMAIN series) > PieCap THEN NLargest(series, PieCap) ELSE {series}

\* ax.pie(series_val): when the values sum to zero the wedge fractions are
\* 0/0; depending on the matplotlib build this draws nothing or raises
PieRaises(series) ==
  IF DOMAIN series # {} /\ \A k \in DOMAIN series : series[k] = 0
  THEN {TRUE, FALSE} ELSE {FALSE}

(***************************************************************************)
(* Pivot tables (lines 159-182 on screen, 259-276 in the workbook).        *)
(***************************************************************************)
RECURSIVE SumPair(_, _, _, _, _, _)
SumPair(rows, cpos, c, ppos, p, vpos) ==
  IF rows = <<>> THEN 0
  ELSE (IF Head(rows)[cpos] = c /\ Head(rows)[ppos] = p THEN Head(rows)[vpos].n ELSE 0)
       + SumPair(Tail(rows), cpos, c, ppos, p, vpos)

\* a pivot that would keep the keys of rows missing the other key
Pivot2D_KeepMissing(tbl) ==
  LET cpos == Pos(tbl.columns, Categoria)
      ppos == Pos(tbl.columns, Proveedor)
      vpos == Pos(tbl.columns, ValorTotal)
      idx  == {tbl.rows[r][cpos] : r \in DOMAIN tbl.rows} \ {NaN}
      cols == {tbl.rows[r][ppos] : r \in DOMAIN tbl.rows} \ {NaN}
  IN  [kind |-> "2d", index |-> idx, columns |-> cols,
       cell |-> [k \in idx \X cols |-> SumPair(tbl.rows, cpos, k[1], ppos, k[2], vpos)]]

\* pd.pivot_table(values='Valor Total (S/)', index='Categoría',
\*                columns='Proveedor', aggfunc='sum', fill_value=0):
\* rows missing either key fall out of the grouping
Pivot2D(tbl) ==
  LET cpos == Pos(tbl.columns, Categoria)
      ppos == Pos(tbl.columns, Proveedor)
      vpos == Pos(tbl.columns, ValorTotal)
      both == {r \in DOMAIN tbl.rows : tbl.rows[r][cpos] # NaN /\ tbl.rows[r][ppos] # NaN}
      idx  == {tbl.rows[r][cpos] : r \in both}
      cols == {tbl.rows[r][ppos] : r \in both}
  IN  [kind |-> "2d", index |-> idx, columns |-> cols,
       cell |-> [k \in idx \X cols |-> SumPair(tbl.rows, cpos, k[1], ppos, k[2], vpos)]]

\* pivot_table(index='Categoría') and groupby('Categoría').sum() (lines 172-178, 268)
Pivot1D(tbl) ==
  LET g == GroupSum(tbl, Categoria, ValorTotal)
  IN  [kind |-> "1d", index |-> DOMAIN g, columns |-> {}, cell |-> g]

\* the note of line 276 / the st.info of line 182
NoPivot == [kind |-> "none", index |-> {}, columns |-> {}, cell |-> NoSeries]

PivotOf(tbl) ==
  IF Positions(tbl.columns, Categoria) # {} /\ Positions(tbl.columns, Proveedor) # {}
  THEN Pivot2D(tbl)
  ELSE IF Positions(tbl.columns, Categoria) # {} THEN Pivot1D(tbl)
  ELSE NoPivot

(***************************************************************************)
(* Workbook (lines 186-276).                                               *)
(***************************************************************************)
startrow == 3

\* a chart series over the data rows of the sheet 'Inventario':
\* [first_data_row, column] .. [last_data_row, column]
ChartRange(tbl, catcol, valcol) ==
  [present |-> TRUE,
   first_row |-> startrow + 1,
   last_row |-> startrow + Len(tbl.rows),
   categories |-> Pos(tbl.columns, catcol) - 1,
   values |-> Pos(tbl.columns, valcol) - 1]

NoChart ==
  [present |-> FALSE, first_row |-> 0, last_row |-> 0, categories |-> 0, values |-> 0]

Chart(tbl, catcol, valcol) ==
  IF Positions(tbl.columns, catcol) # {} /\ Positions(tbl.columns, valcol) # {}
  THEN ChartRange(tbl, catcol, valcol) ELSE NoChart

\* the sheet rows a chart series spans, as rows of the written table
ChartPoints(chart) ==
  IF chart.present THEN (chart.first_row - startrow)..(chart.last_row - startrow) ELSE {}

Workbook(filtered, work, st) ==
  [emitted |-> TRUE,
   inventario |-> filtered,
   chart1 |-> Chart(filtered, Producto, Stock),
   chart2 |-> Chart(filtered, Producto, ValorTotal),
   resumen |-> st,
   dinamico |-> PivotOf(work)]

EmptyTable == [columns |-> <<>>, rows |-> <<>>]

NoWorkbook ==
  [emitted |-> FALSE, inventario |-> EmptyTable, chart1 |-> NoChart, chart2 |-> NoChart,
   resumen |-> NoStats, dinamico |-> NoPivot]

\* ws2.write_column(3, 1, ...) (line 255): xlsxwriter's write_number refuses
\* NaN with a TypeError; builds older than that check write the cell
WriteRaises(st) == IF st.precio_promedio.nan THEN {TRUE, FALSE} ELSE {FALSE}

(***************************************************************************)
(* Uploaded sheets (df = pd.read_excel(archivo), line 60).  read_excel     *)
(* renames repeated headers, so the raw headers are pairwise distinct.     *)
(***************************************************************************)
DistinctSeqs(S, n) ==
  {s \in [1..n -> S] : \A i, j \in 1..n : i # j => s[i] # s[j]}

\* sheets that differ in their headers: no row, or one row of numbers
HeaderTables ==
  UNION { { [columns |-> c, rows |-> [r \in 1..m |-> [i \in 1..Len(c) |-> Num(2)]]] :
              m \in 0..1 } :
          c \in UNION {DistinctSeqs(HeaderPool, n) : n \in 1..MaxCols} }

\* sheets of a fixed layout: the cells of column i are drawn from domains[i]
RowsOf(layout) ==
  {row \in [1..Len(layout.columns) -> UNION {layout.domains[i] : i \in DOMAIN layout.domains}] :
     \A i \in DOMAIN row : row[i] \in layout.domains[i]}

TablesOf(layout) ==
  UNION { { [columns |-> layout.columns, rows |-> rs] : rs \in [1..m -> RowsOf(layout)] } :
          m \in 0..MaxRows }

T_a == Txt(<<"a">>)

T_b == Txt(<<"b">>)

T_x == Txt(<<"x">>)

T_y == Txt(<<"y">>)

T_s == Txt(<<"s">>)

T_t == Txt(<<"t">>)

Layouts ==
  { [columns |-> <<Producto, Stock, H_Precio>>,
     domains |-> << {T_a, T_b},
                    {Num(3), Txt(<<"7">>), NaN},
                    {Num(2), Txt(<<"n","a">>), NaN} >>],
    [columns |-> <<H_Nombre, H_Qty, H_UnitCost, ValorTotal>>,
     domains |-> << {T_a}, {Num(3), Txt(<<"x">>)}, {Num(2), NaN}, {Num(9), NaN} >>],
    [columns |-> <<Producto, Categoria, Proveedor, Stock, H_Precio>>,
     domains |-> << {T_a}, {T_x, T_y, NaN}, {T_s, T_t, NaN}, {Num(1)}, {Num(1), Num(2)} >>],
    [columns |-> <<Producto, H_Tipo, Stock, H_Precio>>,
     domains |-> << {T_a, T_b}, {T_x, NaN}, {Num(1), Num(0)}, {Num(2)} >>],
    [columns |-> <<Producto, H_StockActual, Stock, H_Precio>>,
     domains |-> << {T_a}, {Num(1)}, {Num(4)}, {Num(2)} >>] }

\* sheets with many distinct products (numeric product codes), one row each
StockPattern(p, i, n) ==
  CASE p = 1 -> i
    [] p = 2 -> n + 1 - i
    [] OTHER -> (i + 1) \div 2

ManyProducts ==
  { [columns |-> <<Producto, Stock, H_Precio>>,
     rows |-> [i \in 1..n |-> <<Num(100 + i), Num(StockPattern(p, i, n)), Num(1)>>]] :
      n \in (PieCap - 1)..MaxProducts, p \in 1..3 }

Uploads == HeaderTables \cup UNION {TablesOf(l) : l \in Layouts} \cup ManyProducts

(***************************************************************************)
(* The run of the script over one uploaded file (lines 58-287).            *)
(***************************************************************************)
Init ==
  /\ pc = "normalize"
  /\ df \in Uploads
  /\ detected = <<>>
  /\ df_norm = EmptyTable
  /\ missing_required = <<>>
  /\ df_work = EmptyTable
  /\ stats = NoStats
  /\ selected_cats = {}
  /\ df_filtered = EmptyTable
  /\ series_stock = NoSeries
  /\ series_val = NoSeries
  /\ pivot = NoPivot
  /\ report = NoWorkbook
  /\ message = NoMessage

\* the except clause of lines 286-287
Raise == pc' = "error" /\ message' = ExceptionMessage

\* line 63
Normalize ==
  /\ pc = "normalize"
  /\ detected' = DetectMap(df.columns)
  /\ df_norm' = [columns |-> Rename(df.columns, DetectMap(df.columns)), rows |-> df.rows]
  /\ pc' = "validate"
  /\ UNCHANGED <<df, missing_required, df_work, stats, selected_cats, df_filtered,
                 series_stock, series_val, pivot, report, message>>

\* lines 66-76
Validate ==
  /\ pc = "validate"
  /\ missing_required' = MissingRequired(detected)
  /\ IF MissingRequired(detected) # <<>>
     THEN pc' = "rejected" /\ message' = SchemaMessage(MissingRequired(detected))
     ELSE pc' = "derive" /\ UNCHANGED message
  /\ UNCHANGED <<df, detected, df_norm, df_work, stats, selected_cats, df_filtered,
                 series_stock, series_val, pivot, report>>

\* lines 78-85
Derive ==
  /\ pc = "derive"
  /\ IF IsSeries(df_norm, Stock) /\ IsSeries(df_norm, PrecioUnitario)
     THEN /\ df_work' = WithValorTotal(
                          CoerceColumn(CoerceColumn(df_norm, Stock), PrecioUnitario))
          /\ pc' = "summary"
          /\ UNCHANGED message
     ELSE Raise /\ UNCHANGED df_work
  /\ UNCHANGED <<df, detected, df_norm, missing_required, stats, selected_cats,
                 df_filtered, series_stock, series_val, pivot, report>>

\* lines 98-117: df_work.loc[idx, 'Producto'] needs the column when there
\* are rows, and st.metric needs a scalar
Summarize ==
  /\ pc = "summary"
  /\ IF Len(df_work.rows) > 0 /\ ~IsSeries(df_work, Producto)
     THEN Raise /\ UNCHANGED stats
     ELSE /\ stats' = Summary(df_work)
          /\ pc' = "filter"
          /\ UNCHANGED message
  /\ UNCHANGED <<df, detected, df_norm, missing_required, df_work, selected_cats,
                 df_filtered, series_stock, series_val, pivot, report>>

\* lines 121-128: the multiselect defaults to every category; the user
\* may narrow it
Filter ==
  /\ pc = "filter"
  /\ IF Positions(df_work.columns, Categoria) = {}
     THEN /\ df_filtered' = df_work
          /\ pc' = "charts"
          /\ UNCHANGED <<selected_cats, message>>
     ELSE IF ~IsSeries(df_work, Categoria)
     THEN Raise /\ UNCHANGED <<selected_cats, df_filtered>>
     ELSE \E selected \in SUBSET Categorias(df_work) :
            /\ selected_cats' = selected
            /\ df_filtered' = FilterByCategoria(df_work, selected)
            /\ pc' = "charts"
            /\ UNCHANGED message
  /\ UNCHANGED <<df, detected, df_norm, missing_required, df_work, stats,
                 series_stock, series_val, pivot, report>>

\* lines 131-155
Charts ==
  /\ pc = "charts"
  /\ IF Positions(df_filtered.columns, Producto) = {}
     THEN /\ pc' = "pivot"
          /\ UNCHANGED <<series_stock, series_val, message>>
     ELSE IF ~IsSeries(df_filtered, Producto)
     THEN Raise /\ UNCHANGED <<series_stock, series_val>>
     ELSE \E pie \in PieSeries(GroupSum(df_filtered, Producto, ValorTotal)) :
          \E raises \in PieRaises(pie) :
            /\ series_stock' = GroupSum(df_filtered, Producto, Stock)
            /\ series_val' = pie
            /\ IF raises THEN Raise ELSE pc' = "pivot" /\ UNCHANGED message
  /\ UNCHANGED <<df, detected, df_norm, missing_required, df_work, stats,
                 selected_cats, df_filtered, pivot, report>>

\* lines 158-182
Pivot ==
  /\ pc = "pivot"
  /\ IF Cardinality(Positions(df_work.columns, Proveedor)) > 1
        /\ Positions(df_work.columns, Categoria) # {}
     THEN Raise /\ UNCHANGED pivot
     ELSE /\ pivot' = PivotOf(df_work)
          /\ pc' = "export"
          /\ UNCHANGED message
  /\ UNCHANGED <<df, detected, df_norm, missing_required, df_work, stats,
                 selected_cats, df_filtered, series_stock, series_val, report>>

\* lines 185-284
Export ==
  /\ pc = "export"
  /\ \E raises \in WriteRaises(stats) :
       IF raises
       THEN Raise /\ UNCHANGED report
       ELSE /\ report' = Workbook(df_filtered, df_work, stats)
            /\ pc' = "done"
            /\ UNCHANGED message
  /\ UNCHANGED <<df, detected, df_norm, missing_required, df_work, stats,
                 selected_cats, df_filtered, series_stock, series_val, pivot>>

Next ==
  \/ Normalize
  \/ Validate
  \/ Derive
  \/ Summarize
  \/ Filter
  \/ Charts
  \/ Pivot
  \/ Export

Spec == Init /\ [][Next]_vars

(***************************************************************************)
(* Vocabulary of the properties.                                           *)
(***************************************************************************)
Range(seq) == {seq[i] : i \in DOMAIN seq}

\* the run has been through detectar_y_normalizar_columnas
Normalized == pc # "normalize"

\* the run has been through the check of the required fields
Validated == pc \notin {"normalize", "validate"}

\* the run is past lines 78-85 and has not raised
Derived == pc \in {"summary", "filter", "charts", "pivot", "export", "done"}

\* the run is past lines 98-108 and has not raised
Summarized == pc \in {"filter", "charts", "pivot", "export", "done"}

AbsentRequired == {r \in Range(required) : ~Has(detected, r)}

\* the lowercased, trimmed form of raw header i
NormalForm(i) == Strip(Lower(df.columns[i]))

Min(S) == CHOOSE m \in S : \A n \in S : m <= n

\* a raw cell that is blank or holds no number
NonNumeric(cell) ==
  \/ cell.t = "NaN"
  \/ cell.t = "Text" /\ (cell.s = <<>> \/ \E i \in DOMAIN cell.s : cell.s[i] \notin DOMAIN digit)

\* the multiselect was left at its default, every category selected
DefaultSelection ==
  Positions(df_work.columns, Categoria) = {} \/ selected_cats = Categorias(df_work)

RECURSIVE SumOver(_, _)
SumOver(S, f) ==
  IF S = {} THEN 0
  ELSE LET x == CHOOSE y \in S : TRUE IN f[x] + SumOver(S \ {x}, f)

(***************************************************************************)
(* C1.  The Detection Map is injective: no raw header is assigned to two   *)
(* canonical fields, and each canonical field has at most one raw header.  *)
(***************************************************************************)
C1_DetectionMapInjective ==
  Normalized =>
    \A i, j \in DOMAIN detected :
      i # j => detected[i].orig # detected[j].orig /\ detected[i].std # detected[j].std

(***************************************************************************)
(* C2.  Each canonical field claims the header selected by its earliest    *)
(* synonym that occurs in some lowercased, trimmed raw header, and among   *)
(* the headers containing that synonym the first in column order; a field  *)
(* none of whose synonyms occurs is absent from the Detection Map.         *)
(***************************************************************************)
C2_EarliestSynonymFirstHeader ==
  Normalized =>
    \A k \in DOMAIN posibles :
      LET syns == posibles[k].synonyms
          hits(j) == {i \in DOMAIN df.columns : Contains(syns[j], NormalForm(i))}
          matching == {j \in DOMAIN syns : hits(j) # {}}
          entries == {e \in DOMAIN detected : detected[e].std = posibles[k].standard}
      IN  IF matching = {} THEN entries = {}
          ELSE /\ Cardinality(entries) = 1
               /\ \A e \in entries :
                    detected[e].orig = df.columns[Min(hits(Min(matching)))]

\* C2 on the sheets whose headers have pairwise distinct lowercased,
\* trimmed forms: there the claimed header is the first in column order.
C2_OnDistinctNormalForms ==
  (\A i, j \in DOMAIN df.columns : i # j => NormalForm(i) # NormalForm(j)) =>
    C2_EarliestSynonymFirstHeader

(***************************************************************************)
(* C3.  A run is rejected exactly when a required field is absent from     *)
(* the Detection Map; the rejection names exactly the absent required      *)
(* fields; a rejected run produces no coerced table, statistics, chart     *)
(* series, pivot or workbook.                                              *)
(***************************************************************************)
C3_RejectedIffRequiredMissing ==
  Validated =>
    /\ (pc = "rejected") <=> (AbsentRequired # {})
    /\ pc = "rejected" =>
         /\ message.kind = "schema"
         /\ Range(message.fields) = AbsentRequired
         /\ Len(message.fields) = Cardinality(AbsentRequired)
         /\ df_work = EmptyTable
         /\ stats = NoStats
         /\ df_filtered = EmptyTable
         /\ series_stock = NoSeries /\ series_val = NoSeries
         /\ pivot = NoPivot
         /\ report = NoWorkbook
    /\ pc # "rejected" => message.kind # "schema"

C3_Witness ==
  /\ pc = "rejected"
  /\ Has(detected, Producto)
  /\ message.fields = <<Stock, PrecioUnitario>>

(***************************************************************************)
(* C4.  In a run that passes validation every row of the enriched table    *)
(* has Valor Total = Stock x Precio Unitario on the coerced values; a      *)
(* blank or non-numeric Stock or price cell is coerced to 0 and its row    *)
(* has Valor Total 0; a numeric cell keeps its value; no row is dropped; a *)
(* Valor Total column of the input is overwritten, never read.             *)
(***************************************************************************)
C4_ValorTotalIsProduct ==
  Derived =>
    /\ Len(df_work.rows) = Len(df.rows)
    /\ Cardinality(Positions(df_work.columns, ValorTotal)) = 1
    /\ \A r \in DOMAIN df_work.rows :
         LET spos  == Pos(df_work.columns, Stock)
             ppos  == Pos(df_work.columns, PrecioUnitario)
             vpos  == Pos(df_work.columns, ValorTotal)
             row   == df_work.rows[r]
             raw   == df.rows[r]
         IN  /\ row[spos].t = "Number" /\ row[ppos].t = "Number"
             /\ row[vpos] = Num(row[spos].n * row[ppos].n)
             /\ NonNumeric(raw[spos]) => row[spos] = Num(0) /\ row[vpos] = Num(0)
             /\ NonNumeric(raw[ppos]) => row[ppos] = Num(0) /\ row[vpos] = Num(0)
             /\ raw[spos].t = "Number" => row[spos] = raw[spos]
             /\ raw[ppos].t = "Number" => row[ppos] = raw[ppos]
             /\ \A i \in DOMAIN raw : i \notin {spos, ppos, vpos} => row[i] = raw[i]

C4_Witness ==
  /\ pc = "summary"
  /\ Positions(df.columns, ValorTotal) # {}
  /\ \E r1, r2 \in DOMAIN df.rows :
       LET spos == Pos(df_work.columns, Stock)
           vpos == Pos(df_work.columns, ValorTotal)
       IN  /\ df.rows[r1][spos].t = "Text"
           /\ df_work.rows[r1][vpos] = Num(0)
           /\ df.rows[r1][vpos] = Num(9)
           /\ df_work.rows[r2][vpos] = Num(6)
           /\ df.rows[r2][vpos] = Num(9)

(***************************************************************************)
(* C5.  A zero-row table that passes validation gets count = 0,            *)
(* total_value = 0, avg_price = 0 and no max/min-stock product, and the    *)
(* run raises no exception.  (Stated for sheets whose normalized header    *)
(* holds each required column once, the sheets C10 is not about.)          *)
(***************************************************************************)
C5_EmptyTableStatistics ==
  ( /\ Len(df.rows) = 0
    /\ Validated /\ pc # "rejected"
    /\ \A r \in Range(required) : IsSeries(df_norm, r) ) =>
      /\ pc # "error"
      /\ Summarized =>
           /\ stats.total_productos = 0
           /\ stats.valor_total = 0
           /\ ~stats.precio_promedio.nan /\ stats.precio_promedio.num = 0
           /\ stats.producto_max = None /\ stats.producto_min = None

(***************************************************************************)
(* C6.  The Categoría x Proveedor pivot, on screen and in the workbook.    *)
(***************************************************************************)
\* the rows of the enriched table that carry category c and supplier p
RowsWith(c, p) ==
  {r \in DOMAIN df_work.rows :
     /\ df_work.rows[r][Pos(df_work.columns, Categoria)] = c
     /\ df_work.rows[r][Pos(df_work.columns, Proveedor)] = p}

ValorOf == [r \in DOMAIN df_work.rows |-> df_work.rows[r][Pos(df_work.columns, ValorTotal)].n]

\* the rows with a category and a supplier
Complete ==
  {r \in DOMAIN df_work.rows :
     /\ df_work.rows[r][Pos(df_work.columns, Categoria)] # NaN
     /\ df_work.rows[r][Pos(df_work.columns, Proveedor)] # NaN}

CellsAreSums(pv) ==
  /\ DOMAIN pv.cell = pv.index \X pv.columns
  /\ \A k \in DOMAIN pv.cell : pv.cell[k] = SumOver(RowsWith(k[1], k[2]), ValorOf)
  /\ \A k \in DOMAIN pv.cell : RowsWith(k[1], k[2]) = {} => pv.cell[k] = 0
  /\ Complete = DOMAIN df_work.rows => SumOver(DOMAIN pv.cell, pv.cell) = stats.valor_total

\* C6 as claimed: each cell is the sum of Valor Total over the rows of its
\* (Categoría, Proveedor) pair, absent pairs are 0, the row and column
\* universes are the distinct observed values, and with no row missing a
\* key the cells add up to total_value.
C6_PivotUniversesAllObserved ==
  \A pv \in {pivot, report.dinamico} :
    pv.kind = "2d" =>
      /\ CellsAreSums(pv)
      /\ pv.index = Categorias(df_work)
      /\ pv.columns = {df_work.rows[r][Pos(df_work.columns, Proveedor)] :
                         r \in DOMAIN df_work.rows} \ {NaN}

\* C6 as amended: as claimed, except that the row and column universes are
\* the categories and suppliers observed in rows that carry both keys.
C6_PivotUniversesOfCompleteRows ==
  \A pv \in {pivot, report.dinamico} :
    pv.kind = "2d" =>
      /\ CellsAreSums(pv)
      /\ pv.index = {df_work.rows[r][Pos(df_work.columns, Categoria)] : r \in Complete}
      /\ pv.columns = {df_work.rows[r][Pos(df_work.columns, Proveedor)] : r \in Complete}

C6_Witness ==
  /\ pc = "done"
  /\ report.dinamico.kind = "2d"
  /\ report.dinamico = pivot
  /\ Complete # DOMAIN df_work.rows
  /\ Categorias(df_work) \ pivot.index # {}
  /\ \E k \in DOMAIN pivot.cell : pivot.cell[k] > 0

(***************************************************************************)
(* C7.  With more than 20 distinct products every Valor-Total-by-product   *)
(* pie series, the one drawn on screen and the one of the workbook's       *)
(* itemized sheet, holds only the 20 highest-value products, while the     *)
(* itemized table keeps every row.                                         *)
(***************************************************************************)
C7_PieSeriesCapped ==
  ( /\ pc = "done"
    /\ Cardinality(DOMAIN GroupSum(df_filtered, Producto, ValorTotal)) > PieCap ) =>
      LET full == GroupSum(df_filtered, Producto, ValorTotal)
      IN  /\ Len(report.inventario.rows) = Len(df_work.rows)
          /\ Cardinality(DOMAIN series_val) = PieCap
          /\ \A k \in DOMAIN series_val : \A o \in DOMAIN full \ DOMAIN series_val :
               series_val[k] >= full[o]
          /\ Cardinality(ChartPoints(report.chart2)) = PieCap

(***************************************************************************)
(* C8.  Normalization is idempotent: run on the headers it produced, the   *)
(* normalizer detects the same canonical fields, each mapped to the column *)
(* that already carries its canonical name, and renames nothing.           *)
(***************************************************************************)
C8_NormalizationIdempotent ==
  Normalized =>
    LET again == DetectMap(df_norm.columns)
    IN  /\ Keys(again) = Keys(detected)
        /\ \A e \in DOMAIN again : again[e].orig = again[e].std
        /\ Rename(df_norm.columns, again) = df_norm.columns

\* C8 on the sheets where no header was claimed twice and the normalized
\* headers have pairwise distinct lowercased, trimmed forms.
C8_WithoutCollisions ==
  ( /\ C1_DetectionMapInjective
    /\ \A i, j \in DOMAIN df_norm.columns :
         i # j => Strip(Lower(df_norm.columns[i])) # Strip(Lower(df_norm.columns[j])) ) =>
      C8_NormalizationIdempotent

(***************************************************************************)
(* C9.  The itemized sheet of an emitted workbook is the full enriched     *)
(* table under the default category selection: it holds every row the      *)
(* summary counts, rows with a blank Categoría included.                   *)
(***************************************************************************)
C9_ItemizedSheetIsFullTable ==
  (pc = "done" /\ DefaultSelection) =>
    /\ Len(report.inventario.rows) = report.resumen.total_productos
    /\ report.inventario = df_work

(***************************************************************************)
(* C10.  When validation succeeds on pairwise distinct raw headers, the    *)
(* normalized table has exactly one column named for each required field   *)
(* and pairwise distinct column names (which is what keeps lines 81-106    *)
(* from failing on a missing or duplicated canonical column).              *)
(***************************************************************************)
C10_RequiredColumnsPresentOnce ==
  (Validated /\ pc # "rejected") =>
    /\ \A r \in Range(required) : Cardinality(Positions(df_norm.columns, r)) = 1
    /\ \A i, j \in DOMAIN df_norm.columns : i # j => df_norm.columns[i] # df_norm.columns[j]

=============================================================================
